---- MODULE Spec2Model ----
(***************************************************************************)
(* Model of formiko's JSON preview and path-filter engine                  *)
(* (src/formiko/json_preview.py): the path strings of the rendered tree,   *)
(* the filter task run on the 2-worker pool, the marshalling of its result *)
(* to the GLib main loop and the load / script / callback sequence of      *)
(* _render.                                                                *)
(*                                                                         *)
(* Python strings that take part in path arithmetic are sequences of       *)
(* one-character strings, so that f"{path}.{key}" is real concatenation    *)
(* and two different positions can be seen to produce the same text.       *)
(***************************************************************************)
EXTENDS Integers, Sequences, FiniteSets, TLC

(***************************************************************************)
(* Bounds of the model.                                                    *)
(***************************************************************************)
\* number of apply_path_filter calls in one behaviour
MaxRequests == 2
\* number of to_html calls in one behaviour
MaxLoads == 1

(***************************************************************************)
(* JSON values.  A value is a record [kind, items]; the items of an object *)
(* are <<key, value>> entries in insertion order, the items of an array    *)
(* are entries with an empty key, a primitive has no items.                *)
(***************************************************************************)
Leaf == [kind |-> "leaf", items |-> <<>>]

Entry(k, v) == [key |-> k, val |-> v]

Obj(entries) == [kind |-> "obj", items |-> entries]

Arr(vals) == [kind |-> "arr", items |-> [i \in 1..Len(vals) |-> Entry(<<>>, vals[i])]]

\* {"a": {"b": 1}, "c": 2}          (the document of src/tests/test_filter.py)
DocBasic == Obj(<<Entry(<<"a">>, Obj(<<Entry(<<"b">>, Leaf)>>)), Entry(<<"c">>, Leaf)>>)

\* {"a": [10, 20, 30]}
DocArray == Obj(<<Entry(<<"a">>, Arr(<<Leaf, Leaf, Leaf>>))>>)

\* {"a": {"b": 1, "c": 2}}          (the wildcard test's document)
DocWild == Obj(<<Entry(<<"a">>, Obj(<<Entry(<<"b">>, Leaf), Entry(<<"c">>, Leaf)>>))>>)

\* {"a": {"b": 1}, "a.b": 2}        (a key that contains '.')
DocDotKey == Obj(<<Entry(<<"a">>, Obj(<<Entry(<<"b">>, Leaf)>>)), Entry(<<"a", ".", "b">>, Leaf)>>)

\* {"": {"a": 1}}                   (an empty key)
DocEmptyKey == Obj(<<Entry(<<>>, Obj(<<Entry(<<"a">>, Leaf)>>))>>)

\* {"a": {"b.c": [1]}, "a.b": {"c": [2]}}   (two nodes with one path string)
DocTwin ==
    Obj(<<Entry(<<"a">>, Obj(<<Entry(<<"b", ".", "c">>, Arr(<<Leaf>>))>>)),
          Entry(<<"a", ".", "b">>, Obj(<<Entry(<<"c">>, Arr(<<Leaf>>))>>))>>)

\* the value of self._json_data before the first to_html: None
DocNone == Leaf

(***************************************************************************)
(* Structural positions.  A position is the sequence of item indexes       *)
(* (1-based) from the root; it identifies a node whatever its path string  *)
(* turns out to be.                                                        *)
(***************************************************************************)
RECURSIVE ValueAt(_, _)
ValueAt(value, pos) ==
    IF pos = <<>> THEN value
    ELSE ValueAt(value.items[Head(pos)].val, Tail(pos))

RECURSIVE Positions(_)
Positions(value) ==
    {<<>>} \cup UNION { { <<i>> \o p : p \in Positions(value.items[i].val) }
                        : i \in 1..Len(value.items) }

IsPrefix(p, q) == Len(p) <= Len(q) /\ SubSeq(q, 1, Len(p)) = p

Containers(value) == { p \in Positions(value) : ValueAt(value, p).kind # "leaf" }

(***************************************************************************)
(* Text helpers.                                                           *)
(***************************************************************************)
\* str(i) for the indexes the model uses
IntStr(i) == <<<<"0", "1", "2", "3", "4", "5", "6", "7", "8", "9">>[i + 1]>>

\* f"{path}.{key}" if path else key
FieldPath(path, key) == IF path # <<>> THEN path \o <<".">> \o key ELSE key

\* f"{path}.[{i}]" if path else f"[{i}]"
IndexPath(path, i) ==
    IF path # <<>> THEN path \o <<".", "[">> \o IntStr(i) \o <<"]">>
    ELSE <<"[">> \o IntStr(i) \o <<"]">>

\* variant: an index is appended to the path of the list without a dot
ChildPath_index_no_dot(value, path, i) ==
    IF value.kind = "obj" THEN FieldPath(path, value.items[i].key)
    ELSE path \o <<"[">> \o IntStr(i - 1) \o <<"]">>

\* new_path of _value_to_html: the path of item i of a container
ChildPath(value, path, i) ==
    IF value.kind = "obj" THEN FieldPath(path, value.items[i].key)
    ELSE IndexPath(path, i - 1)

(***************************************************************************)
(* collect_paths: the set of path strings of a value and everything below. *)
(***************************************************************************)
\* new_path of collect_paths' own loops over a dict and over a list
collect_new_path(val, path, i) ==
    IF val.kind = "obj" THEN FieldPath(path, val.items[i].key)
    ELSE IndexPath(path, i - 1)

\* variant: the children of the value are not visited
collect_paths_root_only(val, path) == {path}

RECURSIVE collect_paths(_, _)
collect_paths(val, path) ==
    {path} \cup UNION { collect_paths(val.items[i].val, collect_new_path(val, path, i))
                        : i \in 1..Len(val.items) }

(***************************************************************************)
(* _value_to_html: the elements of the rendered tree in document order.    *)
(* An element is [pos, jpath, cls, collapsed]: its data-jpath attribute,   *)
(* its class and whether it carries the collapsed class.  pos is the       *)
(* structural position of the value the element was rendered from.         *)
(***************************************************************************)
Element(pos, path, cls, collapsed) ==
    [pos |-> pos, jpath |-> path, cls |-> cls, collapsed |-> collapsed]

RECURSIVE FlattenSeq(_)
FlattenSeq(ss) == IF ss = <<>> THEN <<>> ELSE Head(ss) \o FlattenSeq(Tail(ss))

RECURSIVE value_to_html_at(_, _, _, _, _)
value_to_html_at(value, collapse, level, path, pos) ==
    IF value.kind \in {"obj", "arr"}
    THEN <<Element(pos, path, "jblock", collapse /\ level > 0)>>
         \o FlattenSeq([i \in 1..Len(value.items) |->
                value_to_html_at(value.items[i].val, collapse, level + 1,
                                 ChildPath(value, path, i), pos \o <<i>>)])
    ELSE <<Element(pos, path, "jleaf", FALSE)>>

_value_to_html(value, collapse, level, path) ==
    value_to_html_at(value, collapse, level, path, <<>>)

(***************************************************************************)
(* _generate_html: the line count of the indented serialization decides    *)
(* whether the non-root containers start collapsed.                        *)
(***************************************************************************)
RECURSIVE SumSeq(_)
SumSeq(ns) == IF ns = <<>> THEN 0 ELSE Head(ns) + SumSeq(Tail(ns))

\* dumps(data, indent=...).count("\n") + 1
RECURSIVE LineCount(_)
LineCount(value) ==
    IF Len(value.items) = 0 THEN 1
    ELSE 2 + SumSeq([i \in 1..Len(value.items) |-> LineCount(value.items[i].val)])

\* variant: a document of exactly collapse_lines lines is collapsed too
_generate_html_at_threshold(data, threshold) ==
    _value_to_html(data, LineCount(data) >= threshold, 0, <<>>)

_generate_html(data, collapse_lines) ==
    _value_to_html(data, LineCount(data) > collapse_lines, 0, <<>>)

(***************************************************************************)
(* preview/json.py: JsonPreview renders the same tree without data-jpath   *)
(* attributes; its elements carry the empty path.                          *)
(***************************************************************************)
RECURSIVE JsonPreview_value_to_html(_, _, _, _)
JsonPreview_value_to_html(value, collapse, level, pos) ==
    IF value.kind \in {"obj", "arr"}
    THEN <<Element(pos, <<>>, "jblock", collapse /\ level > 0)>>
         \o FlattenSeq([i \in 1..Len(value.items) |->
                JsonPreview_value_to_html(value.items[i].val, collapse, level + 1,
                                          pos \o <<i>>)])
    ELSE <<Element(pos, <<>>, "jleaf", FALSE)>>

\* JsonPreview(collapse_lines=threshold).to_html(text) for the value of text
JsonPreview_to_html(obj, threshold) ==
    JsonPreview_value_to_html(obj, LineCount(obj) > threshold, 0, <<>>)

(***************************************************************************)
(* Filter expressions.  An expression is the text typed by the user; the   *)
(* jsonpath_ng parser is modelled by the table Parse, which gives for each *)
(* text of the model either its steps or a failure.                        *)
(***************************************************************************)
\* the Python value None passed as expression
NoneExpr == "<None>"

\* stands for an expression on which parse or find raises an exception that
\* is not a JsonPathParserError
RaisingExpr == "<raises>"

EmptyExprs == {NoneExpr, "", " "}

PathExprs == {"$", "$.a.b", "$.a.*", "$.a[1]", "$.d"}

FailingExprs == {"$.a[", RaisingExpr}

Expressions == EmptyExprs \cup PathExprs \cup FailingExprs

\* not expression or not expression.strip()
IsBlank(expression) == expression \in {NoneExpr, "", " "}

FieldStep(name) == [k |-> "field", name |-> name, index |-> 0]

IndexStep(i) == [k |-> "index", name |-> <<>>, index |-> i]

WildcardStep == [k |-> "wildcard", name |-> <<>>, index |-> 0]

ParserError == [ok |-> FALSE, steps |-> <<>>, msg |-> "Parse error"]

OtherError == [ok |-> FALSE, steps |-> <<>>, msg |-> "Filter error"]

Parsed(steps) == [ok |-> TRUE, steps |-> steps, msg |-> ""]

\* parse(expression) together with the failures of find: the JsonPathParserError
\* of a malformed text keeps the parser's message, every other exception is
\* re-raised as JsonPathParserError("Filter error")
Parse(expression) ==
    CASE expression = "$"      -> Parsed(<<>>)
      [] expression = "$.a.b"  -> Parsed(<<FieldStep(<<"a">>), FieldStep(<<"b">>)>>)
      [] expression = "$.a.*"  -> Parsed(<<FieldStep(<<"a">>), WildcardStep>>)
      [] expression = "$.a[1]" -> Parsed(<<FieldStep(<<"a">>), IndexStep(1)>>)
      [] expression = "$.d"    -> Parsed(<<FieldStep(<<"d">>)>>)
      [] expression = "$.*.*"  -> Parsed(<<WildcardStep, WildcardStep>>)
      [] expression = RaisingExpr -> OtherError
      [] OTHER                 -> ParserError

(***************************************************************************)
(* Matches.  A match (jsonpath_ng's DatumInContext) is identified by the   *)
(* structural position of the matched value; its context is the datum of   *)
(* the parent position and the root datum has no context.                  *)
(***************************************************************************)
\* the data the steps select below one datum, in the evaluator's order
StepFind(data, pos, step) ==
    LET value == ValueAt(data, pos)
        n     == Len(value.items)
        hit(i) == CASE step.k = "field"    -> value.kind = "obj" /\ value.items[i].key = step.name
                    [] step.k = "index"    -> value.kind = "arr" /\ i - 1 = step.index
                    [] step.k = "wildcard" -> value.kind = "obj"
    IN  FlattenSeq([i \in 1..n |-> IF hit(i) THEN <<pos \o <<i>>>> ELSE <<>>])

RECURSIVE find(_, _, _)
find(steps, data, from) ==
    IF steps = <<>> THEN from
    ELSE find(Tail(steps), data,
              FlattenSeq([j \in 1..Len(from) |-> StepFind(data, from[j], Head(steps))]))

Front(s) == SubSeq(s, 1, Len(s) - 1)

\* str() of the path segment of a datum: a field is its name, an index "[i]"
SegmentStr(data, pos) ==
    LET parent == ValueAt(data, Front(pos))
        i      == pos[Len(pos)]
    IN  IF parent.kind = "obj" THEN parent.items[i].key
        ELSE <<"[">> \o IntStr(i - 1) \o <<"]">>

\* str(datum.full_path): "$" for the root datum, the segment alone directly
\* below the root, the context's path, a dot and the segment further down
RECURSIVE full_path_str(_, _)
full_path_str(data, pos) ==
    IF pos = <<>> THEN <<"$">>
    ELSE IF Len(pos) = 1 THEN SegmentStr(data, pos)
    ELSE full_path_str(data, Front(pos)) \o <<".">> \o SegmentStr(data, pos)

\* variant: the root marker is kept as it is
PathStr_keep_root(data, pos) == full_path_str(data, pos)

\* path_str = str(current.full_path); if path_str == "$": path_str = ""
PathStr(data, pos) ==
    LET path_str == full_path_str(data, pos)
    IN  IF path_str = <<"$">> THEN <<>> ELSE path_str

\* variant: only the match itself is added, its contexts are not walked
ContextPaths_match_only(data, pos) == {PathStr(data, pos)}

\* the while loop over current = current.context of one match
RECURSIVE ContextPaths(_, _)
ContextPaths(data, pos) ==
    {PathStr(data, pos)} \cup
    (IF pos = <<>> THEN {} ELSE ContextPaths(data, Front(pos)))

\* variant: expands starts as the empty set
MatchExpands_no_root(data, matches) ==
    UNION { ContextPaths(data, matches[j]) : j \in 1..Len(matches) }

\* the for loop over the matches: expands
MatchExpands(data, matches) ==
    {<<>>} \cup UNION { ContextPaths(data, matches[j]) : j \in 1..Len(matches) }

\* the for loop over the matches: highlights
MatchHighlights(data, matches) ==
    [j \in 1..Len(matches) |-> PathStr(data, matches[j])]

(***************************************************************************)
(* Input texts of to_html and what json.loads makes of them.               *)
(***************************************************************************)
TextBasic == "{\"a\": {\"b\": 1}, \"c\": 2}"

TextArray == "{\"a\": [10, 20, 30]}"

TextWild == "{\"a\": {\"b\": 1, \"c\": 2}}"

TextDotKey == "{\"a\": {\"b\": 1}, \"a.b\": 2}"

TextEmptyKey == "{\"\": {\"a\": 1}}"

TextInvalid == "{\"a\": "

TextTwin == "{\"a\": {\"b.c\": [1]}, \"a.b\": {\"c\": [2]}}"

Texts == {TextBasic, TextArray, TextWild, TextDotKey, TextEmptyKey, TextInvalid}

\* json.loads: the parsed value, or a ValueError for text that is not JSON
loads(text) ==
    CASE text = TextBasic    -> [ok |-> TRUE, value |-> DocBasic]
      [] text = TextArray    -> [ok |-> TRUE, value |-> DocArray]
      [] text = TextWild     -> [ok |-> TRUE, value |-> DocWild]
      [] text = TextDotKey   -> [ok |-> TRUE, value |-> DocDotKey]
      [] text = TextEmptyKey -> [ok |-> TRUE, value |-> DocEmptyKey]
      [] text = TextTwin     -> [ok |-> TRUE, value |-> DocTwin]
      [] OTHER               -> [ok |-> FALSE, value |-> DocNone]

(***************************************************************************)
(* State.                                                                  *)
(***************************************************************************)
VARIABLES
    json_data,        \* self._json_data
    tab_width,        \* self._tab_width
    collapse_lines,   \* self.collapse_lines
    webview,          \* self.webview is not None
    filter_callback,  \* self.filter_callback is not None
    loads_done,       \* number of to_html calls so far
    to_html_calls,    \* what the caller noted of its to_html calls, in call order
    requests,         \* the apply_path_filter calls so far, in submission order
    idle,             \* callbacks queued with GLib.idle_add, oldest first
    handler,          \* the connected on_load_finished closure
    pending,          \* loads of the webview that have not signalled FINISHED
    dom,              \* the page the webview shows
    obs,              \* per request: what has been presented for it
    surface_threads,  \* threads on which surface operations were executed
    src,              \* Renderer.src
    parser_class,     \* Renderer.__parser["class"]
    writer_class,     \* Renderer.__writer["class"]
    output            \* what the last render_output or __call__ returned

\* the state of the filter engine (json_preview.JSONPreview)
engine_vars == <<json_data, tab_width, collapse_lines, webview, filter_callback,
                 loads_done, to_html_calls, requests, idle, handler, pending, dom, obs,
                 surface_threads>>

\* the state of the Renderer and the result of the synchronous preview calls
renderer_vars == <<src, parser_class, writer_class, output>>

vars == <<json_data, tab_width, collapse_lines, webview, filter_callback,
          loads_done, to_html_calls, requests, idle, handler, pending, dom, obs,
          surface_threads, src, parser_class, writer_class, output>>

\* ThreadPoolExecutor(max_workers=2)
MaxWorkers == 2

NoResult ==
    [ok |-> TRUE, data |-> DocNone, highlights |-> <<>>, expands |-> {},
     expr |-> "", msg |-> ""]

TaskResult(data, highlights, expands, expr) ==
    [ok |-> TRUE, data |-> data, highlights |-> highlights, expands |-> expands,
     expr |-> expr, msg |-> ""]

TaskError(msg) == [NoResult EXCEPT !.ok = FALSE, !.msg = msg]

NoHandler == [req |-> 0, highlights |-> <<>>, expands |-> {}, expr |-> ""]

BlankPage == [page |-> 0, data |-> DocNone, collapsed |-> {}, highlighted |-> {}]

NoObs ==
    [rendered |-> "no", stale |-> FALSE, callbacks |-> 0, cb_expr |-> "",
     cb_count |-> 0, cb_pending |-> FALSE, scripts |-> 0, script_load |-> 0,
     dialogs |-> 0, shown |-> BlankPage]

(***************************************************************************)
(* The synchronous previews of a source text: preview.JSONPreview.__call__ *)
(* and Renderer.render_output.  A document they return is [doc, title,     *)
(* of]: the template it was made from, the title of an error page and the  *)
(* source text whose content it shows.                                     *)
(***************************************************************************)
\* getattr(self, "src", None) is None
NoSource == "<no source>"

\* the "class" of the entries of PARSERS; it is None for a parser whose
\* package is not installed
ParserClasses == {"RstParser", "None", "HtmlPreview", "JSONPreview"}

\* the "class" of the entries of WRITERS
WriterClasses == {"Writer4css1", "None"}

\* what docutils' publish_string does with a source
PublishOutcomes == {"html", "DataError", "NotImplementedError", "Exception"}

Document(doc, title, of) == [doc |-> doc, title |-> title, of |-> of]

NoDocument == Document("", "", "")

\* the call returned (state, html, mime)
Returned(state, html, mime) ==
    [raised |-> FALSE, state |-> state, html |-> html, mime |-> mime]

\* the call ended with an exception
Raised == [raised |-> TRUE, state |-> FALSE, html |-> NoDocument, mime |-> ""]

\* DATA_ERROR % (kind, message)
DATA_ERROR(kind) == Document("DATA_ERROR", kind, "")

\* variant: the ValueError of loads is not caught
JSONPreview__call__uncaught(text, tw) ==
    IF loads(text).ok
    THEN Returned(FALSE, Document("pretty_json", "", text), "application/json")
    ELSE Raised

\* preview.JSONPreview.__call__: the pretty-printed JSON, or the error page
\* for text json.loads rejects
JSONPreview__call__(text, tw) ==
    IF loads(text).ok
    THEN Returned(FALSE, Document("pretty_json", "", text), "application/json")
    ELSE Returned(FALSE, Document("error_html", "JSON", ""), "text/html")

\* Renderer.render_output
render_output(source, parser, writer, published) ==
    IF source = NoSource THEN Returned(FALSE, NoDocument, "text/plain")
    ELSE IF parser = "None" THEN Returned(FALSE, Document("NOT_FOUND", "", ""), "text/html")
    ELSE IF writer = "None" THEN Returned(FALSE, Document("NOT_FOUND", "", ""), "text/html")
    ELSE IF parser = "JSONPreview"
    THEN IF loads(source).ok
         THEN Returned(FALSE, Document("JSON_FORMATTER", "", source), "text/html")
         ELSE Returned(FALSE, DATA_ERROR("JSON"), "text/html")
    ELSE IF parser # "HtmlPreview"
    THEN CASE published = "html" ->
                Returned(TRUE, Document("publish_string", "", source), "text/html")
           [] published = "DataError" ->
                Returned(FALSE, DATA_ERROR("Data"), "text/html")
           [] published = "NotImplementedError" ->
                Returned(FALSE, Document("NOT_IMPLEMENTED_ERROR", "", ""), "text/html")
           [] OTHER ->
                Returned(FALSE, Document("EXCEPTION_ERROR", "", ""), "text/html")
    ELSE Returned(FALSE, Document("src", "", source), "text/html")

\* the record of one call: its input and what came back
Call(text, parser, writer, res) ==
    [text |-> text, parser |-> parser, writer |-> writer, res |-> res]

NoCall == Call(NoSource, "None", "None", Returned(FALSE, NoDocument, ""))

\* Renderer.__init__(win, parser="rst", writer="html4"), nothing called yet
RendererInit ==
    /\ src = NoSource
    /\ parser_class = "RstParser"
    /\ writer_class = "Writer4css1"
    /\ output = [rendered |-> NoCall, called |-> NoCall]

\* JSONPreview.__init__
Init ==
    /\ json_data = DocNone
    /\ tab_width = 2
    /\ collapse_lines = 100
    /\ webview = FALSE
    /\ filter_callback = FALSE
    /\ loads_done = 0
    /\ to_html_calls = <<>>
    /\ requests = <<>>
    /\ idle = <<>>
    /\ handler = NoHandler
    /\ pending = <<>>
    /\ dom = BlankPage
    /\ obs = <<>>
    /\ surface_threads = {}
    /\ RendererInit

(***************************************************************************)
(* The GUI around the engine: it sets self.webview and                     *)
(* self.filter_callback before the first filter request, and it may tear   *)
(* the webview down at any time.                                           *)
(***************************************************************************)
AttachWebview ==
    /\ ~webview
    /\ requests = <<>>
    /\ webview' = TRUE
    /\ UNCHANGED <<json_data, tab_width, collapse_lines, filter_callback,
                   loads_done, to_html_calls, requests, idle, handler, pending, dom, obs,
                   surface_threads>>
    /\ UNCHANGED renderer_vars

TearDownWebview ==
    /\ webview
    /\ webview' = FALSE
    /\ handler' = NoHandler
    /\ pending' = <<>>
    /\ dom' = BlankPage
    /\ UNCHANGED <<json_data, tab_width, collapse_lines, filter_callback,
                   loads_done, to_html_calls, requests, idle, obs, surface_threads>>
    /\ UNCHANGED renderer_vars

SetFilterCallback ==
    /\ ~filter_callback
    /\ requests = <<>>
    /\ filter_callback' = TRUE
    /\ UNCHANGED <<json_data, tab_width, collapse_lines, webview, loads_done,
                   to_html_calls, requests, idle, handler, pending, dom, obs, surface_threads>>
    /\ UNCHANGED renderer_vars

(***************************************************************************)
(* to_html: parse the text and cache the value; json.loads raising leaves  *)
(* the cache and the tab width as they were.                               *)
(***************************************************************************)
\* variant: the tab width is stored before json.loads runs
to_html_tab_width_first(text, tw) ==
    /\ loads_done' = loads_done + 1
    /\ json_data' = IF loads(text).ok THEN loads(text).value ELSE json_data
    /\ tab_width' = tw
    /\ UNCHANGED <<collapse_lines, webview, filter_callback, requests, idle,
                   handler, pending, dom, obs, surface_threads>>
    /\ UNCHANGED renderer_vars

to_html(text, tw) ==
    /\ loads_done' = loads_done + 1
    /\ json_data' = IF loads(text).ok THEN loads(text).value ELSE json_data
    /\ tab_width' = IF loads(text).ok THEN tw ELSE tab_width
    /\ UNCHANGED <<collapse_lines, webview, filter_callback, requests, idle,
                   handler, pending, dom, obs, surface_threads>>
    /\ UNCHANGED renderer_vars

(***************************************************************************)
(* _done: schedule the presentation of a finished future on the main loop. *)
(* A call scheduled with GLib.idle_add runs on the main-loop thread,       *)
(* whichever thread scheduled it.                                          *)
(***************************************************************************)
\* variant: the call is made directly in the thread that runs _done
idle_add_thread_direct(caller) == caller

idle_add_thread(caller) == "ui"

RenderCall(caller, r, data, highlights, expands, expr, count) ==
    [fn |-> "_render", req |-> r, thread |-> idle_add_thread(caller), msg |-> "",
     data |-> data, highlights |-> highlights, expands |-> expands,
     expr |-> expr, count |-> count]

DialogCall(caller, r, msg) ==
    [fn |-> "_show_error_dialog", req |-> r, thread |-> idle_add_thread(caller),
     msg |-> msg, data |-> DocNone, highlights |-> <<>>, expands |-> {},
     expr |-> "", count |-> 0]

\* variant: a failed future only gets its dialog, the tree is not re-rendered
_done_dialog_only(caller, r, fut) ==
    IF fut.ok
    THEN Append(idle, RenderCall(caller, r, fut.data, fut.highlights, fut.expands,
                                 fut.expr, Len(fut.highlights)))
    ELSE Append(idle, DialogCall(caller, r, fut.msg))

\* variant: a result without a highlight is reported with the dialog too
_done_dialog_on_no_match(caller, r, fut) ==
    IF fut.ok /\ fut.highlights # <<>>
    THEN Append(idle, RenderCall(caller, r, fut.data, fut.highlights, fut.expands,
                                 fut.expr, Len(fut.highlights)))
    ELSE idle \o <<DialogCall(caller, r, fut.msg),
                   RenderCall(caller, r, json_data, <<>>, {<<>>}, "", 0)>>

\* variant: the count is the number of distinct highlighted paths
_done_count_distinct(caller, r, fut) ==
    IF fut.ok
    THEN Append(idle, RenderCall(caller, r, fut.data, fut.highlights, fut.expands,
                                 fut.expr,
                                 Cardinality({ fut.highlights[j] :
                                               j \in 1..Len(fut.highlights) })))
    ELSE idle \o <<DialogCall(caller, r, fut.msg),
                   RenderCall(caller, r, json_data, <<>>, {<<>>}, "", 0)>>

_done(caller, r, fut) ==
    IF fut.ok
    THEN Append(idle, RenderCall(caller, r, fut.data, fut.highlights, fut.expands,
                                 fut.expr, Len(fut.highlights)))
    ELSE idle \o <<DialogCall(caller, r, fut.msg),
                   RenderCall(caller, r, json_data, <<>>, {<<>>}, "", 0)>>

(***************************************************************************)
(* _task.  It reads self._json_data twice: once to compute the highlights  *)
(* and expands (collect_paths or expr.find) and once more in its return    *)
(* statement; the main thread can run between the two reads.               *)
(***************************************************************************)
\* lines 163-186 up to the return statements: what is computed from the
\* first read of self._json_data
Evaluate(expression, data) ==
    IF IsBlank(expression)
    THEN TaskResult(DocNone, <<>>, collect_paths(data, <<>>), "")
    ELSE IF ~Parse(expression).ok
    THEN TaskError(Parse(expression).msg)
    ELSE LET matches == find(Parse(expression).steps, data, << <<>> >>)
         IN  TaskResult(DocNone, MatchHighlights(data, matches),
                        MatchExpands(data, matches), expression)

\* variant: with a match the tree is pruned (here: to nothing) before it is
\* returned
Return_pruned(fut, data) ==
    IF fut.ok
    THEN [fut EXCEPT !.data = IF fut.highlights = <<>> THEN data ELSE DocNone]
    ELSE fut

\* the return statements: the second read of self._json_data
Return(fut, data) == IF fut.ok THEN [fut EXCEPT !.data = data] ELSE fut

(***************************************************************************)
(* The worker pool: the executor hands its queue to the two workers oldest *)
(* first, so a task is on a worker exactly when fewer than two older tasks *)
(* are still unfinished.                                                   *)
(***************************************************************************)
Unfinished ==
    { r \in 1..Len(requests) : requests[r].stage \in {"queued", "evaluated"} }

OnWorker(r) ==
    /\ r \in Unfinished
    /\ Cardinality({ q \in Unfinished : q < r }) < MaxWorkers

(***************************************************************************)
(* apply_path_filter: _EXECUTOR.submit(_task).add_done_callback(_done).    *)
(* Usually the callback is attached while the task is still queued or      *)
(* running, and the worker that finishes the task runs it.  When a worker  *)
(* is free the task can also finish between the two calls; then            *)
(* add_done_callback runs _done at once in the calling (main) thread.      *)
(***************************************************************************)
NewRequest(expression, stage) ==
    [expression |-> expression, stage |-> stage, subdoc |-> json_data,
     evaldoc |-> IF stage = "done" THEN json_data ELSE DocNone,
     done_by |-> IF stage = "done" THEN "ui" ELSE "",
     res |-> NoResult]

NewObs == [NoObs EXCEPT !.shown = dom]

apply_path_filter(expression) ==
    /\ Len(requests) < MaxRequests
    /\ requests' = Append(requests, NewRequest(expression, "queued"))
    /\ obs' = Append(obs, NewObs)
    /\ UNCHANGED <<json_data, tab_width, collapse_lines, webview, filter_callback,
                   loads_done, to_html_calls, idle, handler, pending, dom, surface_threads>>
    /\ UNCHANGED renderer_vars

apply_path_filter_done_inline(expression) ==
    /\ Len(requests) < MaxRequests
    /\ Cardinality(Unfinished) < MaxWorkers
    /\ requests' = Append(requests, NewRequest(expression, "done"))
    /\ obs' = Append(obs, NewObs)
    /\ idle' = _done("ui", Len(requests) + 1,
                     Return(Evaluate(expression, json_data), json_data))
    /\ UNCHANGED <<json_data, tab_width, collapse_lines, webview, filter_callback,
                   loads_done, to_html_calls, handler, pending, dom, surface_threads>>
    /\ UNCHANGED renderer_vars

\* first half of _task on a worker; an exception ends the task here and the
\* worker runs _done
TaskEval(r) ==
    /\ OnWorker(r)
    /\ requests[r].stage = "queued"
    /\ LET fut == Evaluate(requests[r].expression, json_data)
       IN  IF fut.ok
           THEN /\ requests' = [requests EXCEPT ![r].stage = "evaluated",
                                                ![r].res = fut,
                                                ![r].evaldoc = json_data]
                /\ idle' = idle
           ELSE /\ requests' = [requests EXCEPT ![r].stage = "done",
                                                ![r].done_by = "worker",
                                                ![r].evaldoc = json_data]
                /\ idle' = _done("worker", r, fut)
    /\ UNCHANGED <<json_data, tab_width, collapse_lines, webview, filter_callback,
                   loads_done, to_html_calls, handler, pending, dom, obs, surface_threads>>
    /\ UNCHANGED renderer_vars

\* return self._json_data, highlights, expands, expression; the worker then
\* runs _done
TaskReturn(r) ==
    /\ OnWorker(r)
    /\ requests[r].stage = "evaluated"
    /\ requests' = [requests EXCEPT ![r].stage = "done", ![r].res = NoResult,
                                    ![r].done_by = "worker"]
    /\ idle' = _done("worker", r, Return(requests[r].res, json_data))
    /\ UNCHANGED <<json_data, tab_width, collapse_lines, webview, filter_callback,
                   loads_done, to_html_calls, handler, pending, dom, obs, surface_threads>>
    /\ UNCHANGED renderer_vars

(***************************************************************************)
(* The main loop runs the oldest idle callback.                            *)
(***************************************************************************)
\* _show_error_dialog
ShowErrorDialog(e) ==
    /\ obs' = [obs EXCEPT ![e.req].dialogs = @ + 1]
    /\ surface_threads' = surface_threads \cup {e.thread}
    /\ UNCHANGED <<handler, pending>>

NewLoad(e) ==
    [req |-> e.req, data |-> e.data,
     collapse |-> LineCount(e.data) > collapse_lines, cancelled |-> FALSE]

\* self.webview.load_html(html, "file:///"): a load still in progress is
\* superseded
load_html(e) ==
    [i \in 1..Len(pending) |-> [pending[i] EXCEPT !.cancelled = TRUE]]
    \o <<NewLoad(e)>>

\* variant: _render does not look at self.webview
Render_no_webview_check(e) ==
    /\ handler' = [req |-> e.req, highlights |-> e.highlights,
                   expands |-> e.expands, expr |-> e.expr]
    /\ pending' = load_html(e)
    /\ surface_threads' = surface_threads \cup {e.thread}
    /\ obs' = [obs EXCEPT ![e.req].rendered = "loaded",
                          ![e.req].callbacks = IF filter_callback THEN @ + 1 ELSE @]

\* _render
Render(e) ==
    IF ~webview
    THEN /\ obs' = [obs EXCEPT ![e.req].rendered = "skipped"]
         /\ UNCHANGED <<handler, pending, surface_threads>>
    ELSE /\ handler' = [req |-> e.req, highlights |-> e.highlights,
                        expands |-> e.expands, expr |-> e.expr]
         /\ pending' = load_html(e)
         /\ surface_threads' = surface_threads \cup {e.thread}
         /\ obs' = [obs EXCEPT
                ![e.req].rendered = "loaded",
                ![e.req].stale = (e.req < Len(requests)),
                ![e.req].callbacks = IF filter_callback THEN @ + 1 ELSE @,
                ![e.req].cb_expr = IF filter_callback THEN e.expr ELSE @,
                ![e.req].cb_count = IF filter_callback THEN e.count ELSE @,
                ![e.req].cb_pending =
                    /\ filter_callback
                    /\ \E i \in 1..Len(load_html(e)) :
                          /\ load_html(e)[i].req = e.req
                          /\ ~load_html(e)[i].cancelled]

RunIdle ==
    /\ idle # <<>>
    /\ idle' = Tail(idle)
    /\ IF Head(idle).fn = "_render" THEN Render(Head(idle))
       ELSE ShowErrorDialog(Head(idle))
    /\ UNCHANGED <<json_data, tab_width, collapse_lines, webview, filter_callback,
                   loads_done, to_html_calls, requests, dom>>
    /\ UNCHANGED renderer_vars

(***************************************************************************)
(* The page.  The elements of a page are those _generate_html emitted for  *)
(* its data; the page state is the set of positions whose element carries  *)
(* the collapsed class and the set carrying jhighlight.                    *)
(***************************************************************************)
PageElements(data) == _value_to_html(data, FALSE, 0, <<>>)

\* variant: the marks of the page shown before survive the load
LoadedPage_keep_marks(l) ==
    [page |-> l.req, data |-> l.data, collapsed |-> dom.collapsed,
     highlighted |-> dom.highlighted]

\* the page right after the HTML of a load has been parsed
LoadedPage(l) ==
    LET elements == _value_to_html(l.data, l.collapse, 0, <<>>)
    IN  [page |-> l.req, data |-> l.data,
         collapsed |-> { elements[i].pos : i \in { j \in 1..Len(elements) :
                                                     elements[j].collapsed } },
         highlighted |-> {}]

\* document.querySelector(`[data-jpath="${p}"]`): the first element in
\* document order with that attribute, as a set of at most one position
QuerySelector(data, p) ==
    LET elements == PageElements(data)
        hits     == { i \in 1..Len(elements) : elements[i].jpath = p }
    IN  { elements[i].pos : i \in { j \in hits : \A k \in hits : j <= k } }

\* document.querySelectorAll('.jblock')
Blocks(data) ==
    LET elements == PageElements(data)
    IN  { elements[i].pos : i \in { j \in 1..Len(elements) :
                                      elements[j].cls = "jblock" } }

\* variant: an empty expression runs no script at all
RunScript_no_reset(page, h) ==
    IF page.page = 0 \/ h.expr = "" THEN page
    ELSE [page EXCEPT
            !.collapsed = (page.collapsed \cup Blocks(page.data))
                          \ UNION { QuerySelector(page.data, p) : p \in h.expands },
            !.highlighted = page.highlighted \cup
                          UNION { QuerySelector(page.data, h.highlights[i])
                                  : i \in 1..Len(h.highlights) }]

\* the script of on_load_finished, run against the page the webview shows
RunScript(page, h) ==
    IF page.page = 0 THEN page
    ELSE IF h.expr # ""
    THEN [page EXCEPT
            !.collapsed = (page.collapsed \cup Blocks(page.data))
                          \ UNION { QuerySelector(page.data, p) : p \in h.expands },
            !.highlighted = page.highlighted \cup
                          UNION { QuerySelector(page.data, h.highlights[i])
                                  : i \in 1..Len(h.highlights) }]
    ELSE [page EXCEPT !.collapsed = page.collapsed \ Blocks(page.data)]

(***************************************************************************)
(* The webview signals load-changed FINISHED for its oldest unfinished     *)
(* load.  A superseded load may still signal FINISHED (the cancelled load  *)
(* fails and finishes) or end without a signal; the connected handler does *)
(* not know which load a signal belongs to.                                *)
(***************************************************************************)
LoadFinished ==
    /\ webview
    /\ pending # <<>>
    /\ pending' = Tail(pending)
    /\ LET l    == Head(pending)
           page == IF l.cancelled THEN dom ELSE LoadedPage(l)
       IN  IF handler.req # 0
           THEN /\ dom' = RunScript(page, handler)
                /\ handler' = NoHandler
                /\ obs' = [obs EXCEPT ![handler.req].scripts = @ + 1,
                                      ![handler.req].script_load = l.req]
                /\ surface_threads' = surface_threads \cup {"ui"}
           ELSE /\ dom' = page
                /\ UNCHANGED <<handler, obs, surface_threads>>
    /\ UNCHANGED <<json_data, tab_width, collapse_lines, webview, filter_callback,
                   loads_done, to_html_calls, requests, idle>>
    /\ UNCHANGED renderer_vars

DropLoad ==
    /\ pending # <<>>
    /\ Head(pending).cancelled
    /\ pending' = Tail(pending)
    /\ UNCHANGED <<json_data, tab_width, collapse_lines, webview, filter_callback,
                   loads_done, to_html_calls, requests, idle, handler, dom, obs,
                   surface_threads>>
    /\ UNCHANGED renderer_vars

(***************************************************************************)
(* Specification of concurrent use: filter requests, document loads and    *)
(* the teardown of the webview interleave freely with the workers and the  *)
(* main loop.  The inputs are one matching and one malformed expression   *)
(* and one valid and one invalid text.                                     *)
(***************************************************************************)
ConcurrentExprs == {"$.a.b", "$.a["}

ConcurrentTexts == {TextBasic, TextInvalid}

ConcurrentTabWidths == {4}

Next ==
    \/ AttachWebview
    \/ TearDownWebview
    \/ SetFilterCallback
    \/ \E text \in ConcurrentTexts, tw \in ConcurrentTabWidths :
          loads_done < MaxLoads /\ to_html(text, tw) /\ UNCHANGED to_html_calls
    \/ \E expression \in ConcurrentExprs : apply_path_filter(expression)
    \/ \E expression \in ConcurrentExprs : apply_path_filter_done_inline(expression)
    \/ \E r \in 1..MaxRequests : TaskEval(r)
    \/ \E r \in 1..MaxRequests : TaskReturn(r)
    \/ RunIdle
    \/ LoadFinished
    \/ DropLoad

Spec == Init /\ [][Next]_vars

(***************************************************************************)
(* Specification of sequential use: the caller loads a document or submits *)
(* the next request only when the previous one has been presented, and the *)
(* GUI has set the webview and the callback before the first request.  The *)
(* inputs are every text and expression of the model, and the collapse     *)
(* threshold is either the default or a small one.                         *)
(***************************************************************************)
Quiet == Unfinished = {} /\ idle = <<>> /\ pending = <<>>

\* the GUI has set the webview and the filter callback
Wired == webview /\ filter_callback

CollapseLinesChoices == {3, 100}

\* JSONPreview(collapse_lines=n)
InitSeq ==
    /\ json_data = DocNone
    /\ tab_width = 2
    /\ collapse_lines \in CollapseLinesChoices
    /\ webview = FALSE
    /\ filter_callback = FALSE
    /\ loads_done = 0
    /\ to_html_calls = <<>>
    /\ requests = <<>>
    /\ idle = <<>>
    /\ handler = NoHandler
    /\ pending = <<>>
    /\ dom = BlankPage
    /\ obs = <<>>
    /\ surface_threads = {}
    /\ RendererInit

SeqTabWidths == {4}

NextSeq ==
    \/ AttachWebview
    \/ SetFilterCallback
    \/ \E text \in Texts, tw \in SeqTabWidths :
          /\ Quiet
          /\ loads_done < MaxLoads
          /\ to_html(text, tw)
          /\ UNCHANGED to_html_calls
    \/ \E expression \in Expressions :
          Quiet /\ Wired /\ apply_path_filter(expression)
    \/ \E r \in 1..MaxRequests : TaskEval(r)
    \/ \E r \in 1..MaxRequests : TaskReturn(r)
    \/ RunIdle
    \/ LoadFinished

SpecSeq == InitSeq /\ [][NextSeq]_vars

(***************************************************************************)
(* Specification of the synchronous previews: the editor hands a source to *)
(* the Renderer, the user picks a parser and a writer, the main loop       *)
(* renders, and preview.JSONPreview is called on a text.  The filter       *)
(* engine is not used.                                                     *)
(***************************************************************************)
\* Renderer.render(src, file_name, pos)
Renderer_render(text) ==
    /\ src' = text
    /\ UNCHANGED <<parser_class, writer_class, output>>
    /\ UNCHANGED engine_vars

\* Renderer.set_parser
set_parser(class) ==
    /\ parser_class' = class
    /\ UNCHANGED <<src, writer_class, output>>
    /\ UNCHANGED engine_vars

\* Renderer.set_writer
set_writer(class) ==
    /\ writer_class' = class
    /\ UNCHANGED <<src, parser_class, output>>
    /\ UNCHANGED engine_vars

\* Renderer.do_render: state, html, mime_type = self.render_output()
do_render ==
    /\ \E published \in PublishOutcomes :
          output' = [output EXCEPT !.rendered =
                        Call(src, parser_class, writer_class,
                             render_output(src, parser_class, writer_class,
                                           published))]
    /\ UNCHANGED <<src, parser_class, writer_class>>
    /\ UNCHANGED engine_vars

\* preview.JSONPreview()(text, tab_width)
JSONPreview_call(text, tw) ==
    /\ output' = [output EXCEPT !.called =
                     Call(text, "JSONPreview", "None", JSONPreview__call__(text, tw))]
    /\ UNCHANGED <<src, parser_class, writer_class>>
    /\ UNCHANGED engine_vars

PreviewTabWidths == {4}

NextPreview ==
    \/ \E text \in Texts : Renderer_render(text)
    \/ \E class \in ParserClasses : set_parser(class)
    \/ \E class \in WriterClasses : set_writer(class)
    \/ do_render
    \/ \E text \in Texts, tw \in PreviewTabWidths : JSONPreview_call(text, tw)

SpecPreview == Init /\ [][NextPreview]_vars

(***************************************************************************)
(* Specification of sequential use with reloads: as SpecSeq, but the       *)
(* caller may load a text again after the first load and notes every       *)
(* to_html call and what it returned.  The inputs are a valid text and an  *)
(* invalid text that comes with another tab width, the three empty         *)
(* expressions, an expression with two matches and a malformed one; the    *)
(* collapse threshold is the line count of the valid document or one less. *)
(***************************************************************************)
\* one first load and MaxLoads reloads
MaxReloads == MaxLoads + 1

\* the <<text, tab_width>> arguments of the to_html calls
ReloadCalls == {<<TextTwin, 4>>, <<TextInvalid, 8>>}

ReloadExprs == EmptyExprs \cup {"$.*.*", "$.a["}

ReloadCollapseLines == {11, 12}

\* the caller's note of one to_html call: its arguments, whether it raised,
\* how many filter requests had been submitted before it, and the HTML it
\* returned
HtmlCall(text, tw, at, html) ==
    [text |-> text, tab_width |-> tw, raised |-> ~loads(text).ok, at |-> at,
     html |-> html]

\* return self._generate_html(self._json_data), for the value of text
to_html_returns(text) ==
    IF loads(text).ok THEN _generate_html(loads(text).value, collapse_lines)
    ELSE <<>>

NoteHtmlCall(text, tw) ==
    to_html_calls' = Append(to_html_calls,
                            HtmlCall(text, tw, Len(requests), to_html_returns(text)))

\* JSONPreview(collapse_lines=n)
InitReload ==
    /\ json_data = DocNone
    /\ tab_width = 2
    /\ collapse_lines \in ReloadCollapseLines
    /\ webview = FALSE
    /\ filter_callback = FALSE
    /\ loads_done = 0
    /\ to_html_calls = <<>>
    /\ requests = <<>>
    /\ idle = <<>>
    /\ handler = NoHandler
    /\ pending = <<>>
    /\ dom = BlankPage
    /\ obs = <<>>
    /\ surface_threads = {}
    /\ RendererInit

NextReload ==
    \/ AttachWebview
    \/ SetFilterCallback
    \/ \E call \in ReloadCalls :
          /\ Quiet
          /\ loads_done < MaxReloads
          /\ to_html(call[1], call[2])
          /\ NoteHtmlCall(call[1], call[2])
    \/ \E expression \in ReloadExprs :
          Quiet /\ Wired /\ apply_path_filter(expression)
    \/ \E r \in 1..MaxRequests : TaskEval(r)
    \/ \E r \in 1..MaxRequests : TaskReturn(r)
    \/ RunIdle
    \/ LoadFinished

SpecReload == InitReload /\ [][NextReload]_vars

(***************************************************************************)
(* Vocabulary of the properties.                                           *)
(***************************************************************************)
Submitted == 1..Len(requests)

\* the expression of request r is non-empty and its evaluation raises
Failed(r) == ~IsBlank(requests[r].expression) /\ ~Parse(requests[r].expression).ok

\* the expression of request r is non-empty and evaluates successfully
Succeeded(r) == ~IsBlank(requests[r].expression) /\ Parse(requests[r].expression).ok

\* the _render calls waiting in the main loop
RenderCalls == { i \in 1..Len(idle) : idle[i].fn = "_render" }

(***************************************************************************)
(* C1: a completed result is presented (loaded into the webview and        *)
(* reported through the filter callback) only if its request is still the  *)
(* most recently submitted one when it is presented; the result of a       *)
(* superseded request is never presented.                                  *)
(***************************************************************************)
C1_OnlyLatestResultPresented ==
    \A r \in Submitted : obs[r].rendered = "loaded" => ~obs[r].stale

(***************************************************************************)
(* C2: an evaluation keeps using the document that was cached when it was  *)
(* submitted, even when to_html replaces the cache meanwhile: the document *)
(* handed to _render and the document its highlight and expand paths were  *)
(* computed from are both that document.                                   *)
(***************************************************************************)
C2_TaskUsesOneDocument ==
    \A i \in RenderCalls :
        (requests[idle[i].req].stage = "done" /\ ~Failed(idle[i].req)) =>
            /\ requests[idle[i].req].evaldoc = requests[idle[i].req].subdoc
            /\ idle[i].data = requests[idle[i].req].subdoc

(***************************************************************************)
(* C3 as claimed: a request with a malformed expression leaves the display *)
(* as it was: once its error dialog has been shown and its own             *)
(* presentation is on the screen, the collapsed containers and the         *)
(* highlighted nodes are those shown when the request was submitted.       *)
(***************************************************************************)
\* the expression of request r is non-empty and the parser rejects it
Malformed(r) ==
    ~IsBlank(requests[r].expression) /\ Parse(requests[r].expression) = ParserError

ErrorSurfaced(r) ==
    /\ Malformed(r)
    /\ obs[r].dialogs > 0
    /\ obs[r].script_load = r
    /\ dom.page = r

C3_FailedRequestKeepsDisplay ==
    \A r \in Submitted :
        ErrorSurfaced(r) =>
            /\ dom.collapsed = obs[r].shown.collapsed
            /\ dom.highlighted = obs[r].shown.highlighted

(***************************************************************************)
(* C3 as amended: once the error dialog of a failed request has been shown *)
(* and the request's own presentation is on the screen (its load finished  *)
(* and its script pass ran), the display is in the reset state whatever    *)
(* was shown before: no node is highlighted and no container is collapsed. *)
(***************************************************************************)
C3_FailedRequestResetsDisplay ==
    \A r \in Submitted :
        ErrorSurfaced(r) => dom.highlighted = {} /\ dom.collapsed = {}

\* a failed request was presented over a display that had a highlighted node
C3_Witness ==
    \E r \in Submitted :
        /\ ErrorSurfaced(r)
        /\ obs[r].shown.highlighted # {}
        /\ dom.highlighted = {}

(***************************************************************************)
(* C4: when the evaluation of a non-empty expression fails (a parser error *)
(* or any other exception), _done schedules the error dialog with the      *)
(* error message and then a _render of the full cached document with no    *)
(* highlight, expands {""}, expression "" and count 0; that _render, run   *)
(* with a webview, loads the document and still invokes the registered     *)
(* filter callback with ("", 0); and its script pass is the reset pass,    *)
(* which leaves no container collapsed and, on its own page, no node       *)
(* highlighted.                                                            *)
(***************************************************************************)
FailingExpression(expression) == ~IsBlank(expression) /\ ~Parse(expression).ok

C4_BecomesDone(r) ==
    /\ requests'[r].stage = "done"
    /\ r > Len(requests) \/ requests[r].stage # "done"

C4_Scheduled(r) ==
    /\ Len(idle') = Len(idle) + 2
    /\ SubSeq(idle', 1, Len(idle)) = idle
    /\ LET dialog == idle'[Len(idle) + 1]
           render == idle'[Len(idle) + 2]
       IN  /\ dialog.fn = "_show_error_dialog"
           /\ dialog.req = r
           /\ dialog.msg = Parse(requests'[r].expression).msg
           /\ render.fn = "_render"
           /\ render.req = r
           /\ render.data = json_data
           /\ render.highlights = <<>>
           /\ render.expands = {<<>>}
           /\ render.expr = ""
           /\ render.count = 0

C4_Rendered(r) ==
    /\ pending' # <<>>
    /\ pending'[Len(pending')].req = r
    /\ pending'[Len(pending')].data = Head(idle).data
    /\ handler'.req = r
    /\ handler'.expr = ""
    /\ handler'.highlights = <<>>
    /\ filter_callback =>
          /\ obs'[r].callbacks = 1
          /\ obs'[r].cb_expr = ""
          /\ obs'[r].cb_count = 0

C4_ScriptIsReset(r) ==
    /\ dom'.collapsed = {}
    /\ dom'.page = r => dom'.highlighted = {}

C4_FailureResetsAndReports ==
    [][\A r \in 1..Len(requests') :
          FailingExpression(requests'[r].expression) =>
             /\ C4_BecomesDone(r) => C4_Scheduled(r)
             /\ (r <= Len(requests) /\ obs[r].rendered = "no"
                   /\ obs'[r].rendered = "loaded") => C4_Rendered(r)
             /\ (r <= Len(requests) /\ obs'[r].scripts = obs[r].scripts + 1)
                   => C4_ScriptIsReset(r)]_vars

\* both kinds of failure have been through dialog, reset render, callback and
\* script pass
C4_Presented(r) ==
    /\ obs[r].dialogs = 1
    /\ obs[r].callbacks = 1
    /\ obs[r].cb_expr = ""
    /\ obs[r].cb_count = 0
    /\ obs[r].script_load = r

C4_Witness ==
    /\ \E r \in Submitted : requests[r].expression = "$.a[" /\ C4_Presented(r)
    /\ \E r \in Submitted : requests[r].expression = RaisingExpr /\ C4_Presented(r)

(***************************************************************************)
(* C5: for every completed filter request, also one that completes after   *)
(* the webview has been torn down, the registered filter callback is       *)
(* invoked exactly once: once the _render of the request has run, the      *)
(* callback has been invoked once.                                         *)
(***************************************************************************)
C5_CallbackOncePerCompletedRequest ==
    \A r \in Submitted :
        (filter_callback /\ obs[r].rendered # "no") => obs[r].callbacks = 1

(***************************************************************************)
(* C6: the filter callback of a request is invoked only after the          *)
(* presentation of that request has been applied: the load of its HTML has *)
(* finished and its script pass has run; it is never invoked while that    *)
(* load is pending.                                                        *)
(***************************************************************************)
C6_CallbackAfterPresentation ==
    \A r \in Submitted :
        obs[r].callbacks > 0 => (~obs[r].cb_pending /\ obs[r].script_load = r)

(***************************************************************************)
(* C7: the script pass of a render runs at most once, and only on the      *)
(* load-finished signal of the HTML that this same render loaded; it never *)
(* runs on the signal of an earlier, superseded load.                      *)
(***************************************************************************)
C7_ScriptOnOwnLoadOnly ==
    \A r \in Submitted :
        /\ obs[r].scripts <= 1
        /\ obs[r].scripts > 0 => obs[r].script_load = r

(***************************************************************************)
(* C8: every operation on the presentation surface (load_html, the script  *)
(* pass, the error dialog) and every filter callback runs on the main-loop *)
(* thread, whether _done ran on a worker or on the main thread; _done only *)
(* schedules calls for the main loop.                                      *)
(***************************************************************************)
C8_SurfaceOnMainThreadOnly ==
    /\ surface_threads \subseteq {"ui"}
    /\ \A i \in 1..Len(idle) : idle[i].thread = "ui"

\* a request finished by a worker and one finished in the caller have both
\* been presented, one of them with an error dialog
C8_Witness ==
    /\ \E r \in Submitted :
          requests[r].done_by = "worker" /\ obs[r].dialogs > 0 /\ obs[r].scripts > 0
    /\ \E r \in Submitted :
          requests[r].done_by = "ui" /\ obs[r].callbacks > 0 /\ obs[r].scripts > 0
    /\ surface_threads = {"ui"}

(***************************************************************************)
(* The path codec the properties are stated with: the segments of a        *)
(* position from the root, and their path string (the root is "", a field  *)
(* contributes its name, an index "[i]", every segment but the first is    *)
(* prefixed by a dot).                                                     *)
(***************************************************************************)
RECURSIVE Segments(_, _)
Segments(data, pos) ==
    IF pos = <<>> THEN <<>>
    ELSE LET parent == ValueAt(data, Front(pos))
             i      == pos[Len(pos)]
         IN  Append(Segments(data, Front(pos)),
                    IF parent.kind = "obj" THEN FieldStep(parent.items[i].key)
                    ELSE IndexStep(i - 1))

SegmentText(seg) ==
    IF seg.k = "field" THEN seg.name ELSE <<"[">> \o IntStr(seg.index) \o <<"]">>

RECURSIVE Encode(_)
Encode(segs) ==
    IF segs = <<>> THEN <<>>
    ELSE IF Len(segs) = 1 THEN SegmentText(segs[1])
    ELSE Encode(Front(segs)) \o <<".">> \o SegmentText(segs[Len(segs)])

EncodePos(data, pos) == Encode(Segments(data, pos))

\* the matches the evaluator returns for a request, from the document the
\* task evaluated
MatchesOf(r) ==
    find(Parse(requests[r].expression).steps, requests[r].evaldoc, << <<>> >>)

(***************************************************************************)
(* C9: for a non-empty expression that evaluates successfully, the         *)
(* ExpandSet handed to _render is exactly "" together with the path        *)
(* strings of every match and of every ancestor of a match, and every path *)
(* in the HighlightSet has all its proper ancestors in the ExpandSet.      *)
(***************************************************************************)
C9_ExpandSetOf(r) ==
    {<<>>} \cup
    { EncodePos(requests[r].evaldoc, q) :
        q \in { p \in Positions(requests[r].evaldoc) :
                  \E j \in 1..Len(MatchesOf(r)) : IsPrefix(p, MatchesOf(r)[j]) } }

C9_ExpandSetIsMatchesAndAncestors ==
    \A i \in RenderCalls :
        LET r == idle[i].req
        IN  (Succeeded(r) /\ requests[r].stage = "done") =>
               /\ idle[i].expands = C9_ExpandSetOf(r)
               /\ Len(idle[i].highlights) = Len(MatchesOf(r))
               /\ \A j \in 1..Len(MatchesOf(r)) :
                     \A n \in 0..(Len(MatchesOf(r)[j]) - 1) :
                        EncodePos(requests[r].evaldoc, SubSeq(MatchesOf(r)[j], 1, n))
                           \in idle[i].expands

\* a wildcard request with two matches below a common ancestor is about to
\* be rendered
C9_Witness ==
    \E i \in RenderCalls :
        /\ Succeeded(idle[i].req)
        /\ Len(idle[i].highlights) = 2
        /\ Cardinality(idle[i].expands) = 4

(***************************************************************************)
(* C10: within one document every tree position has its own path string:   *)
(* no two elements of the rendered tree carry the same data-jpath and      *)
(* collect_paths yields one path per position, also for keys that are      *)
(* empty or contain '.', '[' or ']'.                                       *)
(***************************************************************************)
C10_DistinctPositionsDistinctPaths ==
    LET elements == _generate_html(json_data, collapse_lines)
    IN  /\ \A i, j \in 1..Len(elements) :
              elements[i].jpath = elements[j].jpath => i = j
        /\ Cardinality(collect_paths(json_data, <<>>)) =
              Cardinality(Positions(json_data))

(***************************************************************************)
(* The path strings of the nodes of a document as the tree carries them:   *)
(* the data-jpath attribute of every element _value_to_html renders.       *)
(***************************************************************************)
NodePaths(data) ==
    LET elements == PageElements(data)
    IN  { elements[i].jpath : i \in 1..Len(elements) }

(***************************************************************************)
(* C11: for an expression that is None, empty or only whitespace the       *)
(* result handed to _render has no highlight, an ExpandSet equal to the    *)
(* path strings of every node of the document (containers and leaves, the  *)
(* root as ""), the echoed expression "" and the match count 0.            *)
(***************************************************************************)
C11_BlankFilterExpandsEverything ==
    \A i \in RenderCalls :
        LET r == idle[i].req
        IN  (IsBlank(requests[r].expression) /\ requests[r].stage = "done") =>
               /\ idle[i].highlights = <<>>
               /\ idle[i].expands = NodePaths(requests[r].evaldoc)
               /\ <<>> \in idle[i].expands
               /\ idle[i].data = requests[r].evaldoc
               /\ idle[i].expr = ""
               /\ idle[i].count = 0

\* a whitespace-only request on {"a": [10, 20, 30]} is about to be rendered
\* with the five paths of the document
C11_Witness ==
    \E i \in RenderCalls :
        /\ requests[idle[i].req].expression = " "
        /\ requests[idle[i].req].evaldoc = DocArray
        /\ Cardinality(idle[i].expands) = 5

(***************************************************************************)
(* C12: a well-formed expression with zero matches is not an error: the    *)
(* result handed to _render has no highlight, the ExpandSet {""}, the      *)
(* expression as it was typed and the count 0, and no error dialog is      *)
(* scheduled or shown for the request.                                     *)
(***************************************************************************)
C12_ZeroMatchesRootOnly ==
    \A i \in RenderCalls :
        LET r == idle[i].req
        IN  (Succeeded(r) /\ requests[r].stage = "done" /\ MatchesOf(r) = <<>>) =>
               /\ idle[i].highlights = <<>>
               /\ idle[i].expands = {<<>>}
               /\ idle[i].expr = requests[r].expression
               /\ idle[i].count = 0
               /\ obs[r].dialogs = 0
               /\ \A k \in 1..Len(idle) :
                     idle[k].req = r => idle[k].fn # "_show_error_dialog"

\* "$.d" on {"a": {"b": 1}, "c": 2} is about to be rendered
C12_Witness ==
    \E i \in RenderCalls :
        /\ requests[idle[i].req].expression = "$.d"
        /\ requests[idle[i].req].evaldoc = DocBasic
        /\ requests[idle[i].req].stage = "done"
        /\ idle[i].expands = {<<>>}

(***************************************************************************)
(* C13: for a successful non-empty expression the highlight list has one   *)
(* path string per match, in the order of the evaluator; a match at the    *)
(* root is recorded as "" and the root marker "$" appears neither in the   *)
(* highlight list nor in the ExpandSet.                                    *)
(***************************************************************************)
C13_HighlightsFollowMatches ==
    \A i \in RenderCalls :
        LET r == idle[i].req
        IN  (Succeeded(r) /\ requests[r].stage = "done") =>
               /\ Len(idle[i].highlights) = Len(MatchesOf(r))
               /\ idle[i].count = Len(MatchesOf(r))
               /\ \A j \in 1..Len(MatchesOf(r)) :
                     /\ idle[i].highlights[j] =
                           EncodePos(requests[r].evaldoc, MatchesOf(r)[j])
                     /\ MatchesOf(r)[j] = <<>> => idle[i].highlights[j] = <<>>
                     /\ idle[i].highlights[j] # <<"$">>
               /\ <<"$">> \notin idle[i].expands

\* "$" on a loaded document is about to be rendered with the root as its
\* one highlight
C13_Witness ==
    \E i \in RenderCalls :
        /\ requests[idle[i].req].expression = "$"
        /\ requests[idle[i].req].evaldoc = DocWild
        /\ idle[i].highlights = << <<>> >>
        /\ idle[i].expands = {<<>>}

(***************************************************************************)
(* C14: the path string of every position is built from its segments root  *)
(* to leaf: the root is "", a field contributes its name, an index "[i]",  *)
(* the first segment has no leading dot and every later segment is         *)
(* prefixed by a dot, whatever its kind.  Both the data-jpath of the       *)
(* rendered elements and the paths of collect_paths are built so.          *)
(***************************************************************************)
C14_PathStringFromSegments ==
    LET elements == _generate_html(json_data, collapse_lines)
    IN  /\ \A i \in 1..Len(elements) :
              elements[i].jpath = EncodePos(json_data, elements[i].pos)
        /\ collect_paths(json_data, <<>>) =
              { EncodePos(json_data, p) : p \in Positions(json_data) }
        /\ FieldPath(<<>>, <<"a">>) = <<"a">>
        /\ IndexPath(<<"a">>, 1) = <<"a", ".", "[", "1", "]">>
        /\ IndexPath(<<>>, 0) = <<"[", "0", "]">>

(***************************************************************************)
(* C15: every node rendered by _value_to_html, container or leaf, carries  *)
(* a data-jpath, the root's being ""; the set of data-jpath values of the  *)
(* rendered tree equals the set of paths collect_paths computes for the    *)
(* same document, so every path of the reset state's ExpandSet addresses a *)
(* rendered node.                                                          *)
(***************************************************************************)
C15_RenderedPathsAreCollectedPaths ==
    LET elements == _generate_html(json_data, collapse_lines)
    IN  /\ { elements[i].pos : i \in 1..Len(elements) } = Positions(json_data)
        /\ elements[1].jpath = <<>>
        /\ { elements[i].jpath : i \in 1..Len(elements) } =
              collect_paths(json_data, <<>>)
        /\ \A p \in collect_paths(json_data, <<>>) :
              QuerySelector(json_data, p) # {}

\* {"a": [10, 20, 30]} has been loaded: a container at the root, a list
\* below it and leaves below the list
C15_Witness ==
    /\ json_data = DocArray
    /\ loads_done > 0
    /\ Cardinality(collect_paths(json_data, <<>>)) = 5

(***************************************************************************)
(* C16: the script pass of a non-empty expression collapses every          *)
(* container, then expands the nodes whose path is in the ExpandSet, then  *)
(* highlights the nodes whose path is in the HighlightSet: when the pass   *)
(* of a request has run on the request's own page, a container is          *)
(* collapsed exactly when its path is not in the ExpandSet, and no         *)
(* highlighted node has a collapsed ancestor.                              *)
(***************************************************************************)
\* the data-jpath of the element rendered for a position
JPathOf(data, pos) ==
    LET elements == PageElements(data)
    IN  elements[CHOOSE i \in 1..Len(elements) : elements[i].pos = pos].jpath

\* the script pass of request r has run on the page loaded for r, which is
\* still shown
ScriptApplied(r) == obs[r].script_load = r /\ dom.page = r

C16_CollapsedIffNotExpanded ==
    \A r \in Submitted :
        (Succeeded(r) /\ ScriptApplied(r)) =>
            /\ \A c \in Containers(dom.data) :
                  c \in dom.collapsed <=>
                     JPathOf(dom.data, c) \notin C9_ExpandSetOf(r)
            /\ \A h \in dom.highlighted :
                  \A c \in Containers(dom.data) :
                     (IsPrefix(c, h) /\ c # h) => c \notin dom.collapsed

(***************************************************************************)
(* C17: whatever was presented before, once a request with an empty        *)
(* expression has been presented every container is expanded and no node   *)
(* is highlighted; and when the empty expression is presented a second     *)
(* time on the same document, the HighlightSet and ExpandSet are those of  *)
(* the first time and the display does not change.                         *)
(***************************************************************************)
C17_BlankPresented(r) ==
    (IsBlank(requests'[r].expression) /\ obs'[r].script_load = r /\ dom'.page = r)
       => (dom'.collapsed = {} /\ dom'.highlighted = {})

\* this step runs the script pass of the blank request r while the page of
\* the blank request before it is shown
C17_SecondBlankPass(r) ==
    /\ r > 1
    /\ r <= Len(requests)
    /\ obs'[r].scripts = obs[r].scripts + 1
    /\ IsBlank(requests[r].expression)
    /\ IsBlank(requests[r - 1].expression)
    /\ requests[r].evaldoc = requests[r - 1].evaldoc
    /\ obs[r - 1].script_load = r - 1
    /\ dom.page = r - 1

C17_EmptyFilterResetsAndIsIdempotent ==
    [][\A r \in 1..Len(requests') :
          /\ C17_BlankPresented(r)
          /\ C17_SecondBlankPass(r) =>
                /\ handler.highlights = <<>>
                /\ handler.expands = NodePaths(requests[r - 1].evaldoc)
                /\ dom'.data = dom.data
                /\ dom'.collapsed = dom.collapsed
                /\ dom'.highlighted = dom.highlighted]_vars

\* an empty request has been presented over a display in which a filter
\* had collapsed a container
C17_Witness ==
    \E r \in Submitted :
        /\ IsBlank(requests[r].expression)
        /\ ScriptApplied(r)
        /\ obs[r].shown.collapsed # {}
        /\ obs[r].shown.page = r - 1
        /\ dom.collapsed = {}

\* reachability of the second pass of C17: two empty requests in a row on a
\* loaded document, both presented
C17_TwiceWitness ==
    /\ Len(requests) = 2
    /\ IsBlank(requests[1].expression) /\ IsBlank(requests[2].expression)
    /\ requests[2].evaldoc = DocWild
    /\ requests[1].evaldoc = DocWild
    /\ ScriptApplied(2)
    /\ obs[1].script_load = 1

(***************************************************************************)
(* C18: the error dialog is scheduled only for a request whose evaluation  *)
(* failed, and once for it; a request with an empty expression or with a   *)
(* well-formed expression, whatever the number of its matches, never gets  *)
(* the dialog.                                                             *)
(***************************************************************************)
\* the error dialogs of request r that wait in the main loop or were shown
C18_Dialogs(r) ==
    Cardinality({ k \in 1..Len(idle) :
                    idle[k].fn = "_show_error_dialog" /\ idle[k].req = r })
    + obs[r].dialogs

C18_DialogOnlyForFailedRequests ==
    \A r \in Submitted :
        C18_Dialogs(r) = IF Failed(r) /\ requests[r].stage = "done" THEN 1 ELSE 0

\* a failed request has had its dialog and a zero-match request on a loaded
\* document has been presented without one
C18_Witness ==
    /\ \E r \in Submitted : Failed(r) /\ obs[r].dialogs = 1
    /\ \E r \in Submitted :
          /\ Succeeded(r)
          /\ requests[r].evaldoc # DocNone
          /\ obs[r].cb_count = 0
          /\ obs[r].callbacks = 1
          /\ obs[r].script_load = r
          /\ obs[r].dialogs = 0

(***************************************************************************)
(* C19: when self.webview is absent at the time the main loop runs the     *)
(* _render of a result, _render loads no HTML, connects no load handler,   *)
(* runs no script and returns normally: the step changes neither the       *)
(* handler, the loads, the page nor the requests, and the request is only  *)
(* marked as skipped.  Later requests are still processed.                 *)
(***************************************************************************)
\* this step is the main loop running a _render while there is no webview
C19_RenderWithoutWebview ==
    /\ idle # <<>>
    /\ idle' = Tail(idle)
    /\ Head(idle).fn = "_render"
    /\ ~webview

C19_SkipsPresentationWithoutWebview ==
    [][C19_RenderWithoutWebview =>
          /\ handler' = handler
          /\ pending' = pending
          /\ dom' = dom
          /\ surface_threads' = surface_threads
          /\ requests' = requests
          /\ obs' = [obs EXCEPT ![Head(idle).req].rendered = "skipped"]
          /\ obs'[Head(idle).req].scripts = 0]_vars

\* two requests have been delivered without a webview, one after the other,
\* and nothing was loaded
C19_Witness ==
    /\ Len(requests) = 2
    /\ obs[1].rendered = "skipped"
    /\ obs[2].rendered = "skipped"
    /\ requests[2].stage = "done"
    /\ idle = <<>>
    /\ dom = BlankPage

(***************************************************************************)
(* C20: text that is not well-formed JSON is surfaced synchronously as an  *)
(* error document of type text/html: JSONPreview.__call__ and, with the    *)
(* JSON parser selected, Renderer.render_output return the "JSON Error!"   *)
(* page instead of raising, nothing is scheduled for the error dialog, and *)
(* well-formed text never produces the error page.                         *)
(***************************************************************************)
\* the page is one of the two "JSON Error!" pages
IsJsonErrorDocument(html) ==
    html.title = "JSON" /\ html.doc \in {"error_html", "DATA_ERROR"}

\* the call went through the JSON branch of render_output
JsonBranch(call) ==
    call.text # NoSource /\ call.parser = "JSONPreview" /\ call.writer # "None"

C20_InvalidJsonIsErrorDocument ==
    /\ ~output.called.res.raised
    /\ ~output.rendered.res.raised
    /\ output.called.text # NoSource =>
          /\ IsJsonErrorDocument(output.called.res.html)
                <=> ~loads(output.called.text).ok
          /\ IsJsonErrorDocument(output.called.res.html)
                => output.called.res.mime = "text/html"
    /\ JsonBranch(output.rendered) =>
          /\ IsJsonErrorDocument(output.rendered.res.html)
                <=> ~loads(output.rendered.text).ok
          /\ output.rendered.res.mime = "text/html"
    /\ idle = <<>>

\* both calls have returned the error page for the text {"a":  and
\* the Renderer has the JSON parser selected
C20_Witness ==
    /\ output.called.text = TextInvalid
    /\ output.called.res.html = Document("error_html", "JSON", "")
    /\ output.rendered.text = TextInvalid
    /\ JsonBranch(output.rendered)
    /\ output.rendered.res.html = DATA_ERROR("JSON")

(***************************************************************************)
(* Vocabulary of the reloads: the caller's notes tell which to_html calls  *)
(* returned and which document was the last one parsed before a request.   *)
(***************************************************************************)
\* the noted to_html calls that returned
ParsedCalls == { i \in 1..Len(to_html_calls) : ~to_html_calls[i].raised }

\* the last call of a non-empty set of calls
LastOf(calls) == CHOOSE i \in calls : \A j \in calls : j <= i

\* the document of the last successful parse before request r was submitted
DocumentAt(r) ==
    LET before == { i \in ParsedCalls : to_html_calls[i].at < r }
    IN  IF before = {} THEN DocNone
        ELSE loads(to_html_calls[LastOf(before)].text).value

\* request r is the first request submitted after a failure: the request
\* before it failed, or a to_html call between the two raised
AfterFailure(r) ==
    \/ r > 1 /\ Failed(r - 1)
    \/ \E i \in 1..Len(to_html_calls) :
          to_html_calls[i].raised /\ to_html_calls[i].at = r - 1

\* what a valid request is normally presented with
NormalHighlights(r) ==
    IF IsBlank(requests[r].expression) THEN <<>>
    ELSE [j \in 1..Len(MatchesOf(r)) |-> EncodePos(requests[r].evaldoc, MatchesOf(r)[j])]

NormalExpands(r) ==
    IF IsBlank(requests[r].expression) THEN NodePaths(requests[r].evaldoc)
    ELSE C9_ExpandSetOf(r)

NormalEcho(r) ==
    IF IsBlank(requests[r].expression) THEN "" ELSE requests[r].expression

\* the display after the script pass of request r on its own page
NormalDisplay(r) ==
    /\ dom.data = requests[r].evaldoc
    /\ dom.highlighted =
          UNION { QuerySelector(dom.data, NormalHighlights(r)[j])
                  : j \in 1..Len(NormalHighlights(r)) }
    /\ dom.collapsed =
          IF IsBlank(requests[r].expression) THEN {}
          ELSE Blocks(dom.data)
               \ UNION { QuerySelector(dom.data, p) : p \in NormalExpands(r) }

(***************************************************************************)
(* C21: after a failure (to_html raising on text that is not JSON, or a    *)
(* filter request failing) the engine remains usable: the cached document  *)
(* and the tab width are those of the last successful parse (the initial   *)
(* ones when there was none), and the next valid filter request is         *)
(* evaluated against that document, handed to _render with its normal      *)
(* highlights, expands, expression and count, reported through the         *)
(* callback once, and displayed as it normally is.                         *)
(***************************************************************************)
C21_CacheIsLastParse ==
    IF ParsedCalls = {} THEN json_data = DocNone /\ tab_width = 2
    ELSE /\ json_data = loads(to_html_calls[LastOf(ParsedCalls)].text).value
         /\ tab_width = to_html_calls[LastOf(ParsedCalls)].tab_width

C21_UsableAfterFailure ==
    /\ C21_CacheIsLastParse
    /\ \A r \in Submitted :
          (AfterFailure(r) /\ ~Failed(r)) =>
             /\ requests[r].stage # "queued" =>
                   requests[r].evaldoc = DocumentAt(r)
             /\ \A i \in RenderCalls :
                   idle[i].req = r =>
                      /\ idle[i].data = DocumentAt(r)
                      /\ idle[i].highlights = NormalHighlights(r)
                      /\ idle[i].expands = NormalExpands(r)
                      /\ idle[i].expr = NormalEcho(r)
                      /\ idle[i].count = Len(NormalHighlights(r))
             /\ \A k \in 1..Len(idle) :
                   idle[k].req = r => idle[k].fn = "_render"
             /\ obs[r].dialogs = 0
             /\ obs[r].rendered = "loaded" =>
                   /\ obs[r].callbacks = 1
                   /\ obs[r].cb_expr = NormalEcho(r)
                   /\ obs[r].cb_count = Len(NormalHighlights(r))
             /\ ScriptApplied(r) => NormalDisplay(r)

\* a document was parsed, a second to_html raised, and the matching request
\* submitted next is on the screen with its highlight
C21_Witness ==
    \E r \in Submitted :
        /\ requests[r].expression = "$.*.*"
        /\ \E i \in 1..Len(to_html_calls) :
              /\ to_html_calls[i].raised
              /\ to_html_calls[i].at = r - 1
              /\ \E j \in ParsedCalls : j < i
        /\ requests[r].evaldoc = DocTwin
        /\ obs[r].callbacks = 1
        /\ obs[r].cb_count = 2
        /\ ScriptApplied(r)
        /\ dom.highlighted # {}

\* a request failed and the matching request submitted next is on the screen
C21_AfterQueryErrorWitness ==
    \E r \in Submitted :
        /\ r > 1
        /\ Failed(r - 1)
        /\ obs[r - 1].dialogs = 1
        /\ requests[r].expression = "$.*.*"
        /\ requests[r].evaldoc = DocTwin
        /\ obs[r].cb_count = 2
        /\ ScriptApplied(r)
        /\ dom.highlighted # {}

(***************************************************************************)
(* C22: in the initial HTML, with the line count being the number of lines *)
(* of the indented serialization of the document (one line per primitive   *)
(* and per empty container, two lines for the brackets of a non-empty      *)
(* container): when the line count is greater than collapse_lines every    *)
(* container but the root carries the collapsed class and the root does    *)
(* not; when it is less than or equal to collapse_lines no container       *)
(* carries it.  It holds for the HTML to_html returned and for the HTML of *)
(* preview/json.py.                                                        *)
(***************************************************************************)
\* the number of lines of dumps(doc, indent=n, sort_keys=True)
SerializedLines(doc) ==
    Cardinality(Positions(doc)) +
    Cardinality({ p \in Containers(doc) : Len(ValueAt(doc, p).items) > 0 })

\* the positions of the elements of html that carry the collapsed class
CollapsedIn(html) ==
    { html[i].pos : i \in { j \in 1..Len(html) : html[j].collapsed } }

\* the positions of the container elements of html
BlocksIn(html) ==
    { html[i].pos : i \in { j \in 1..Len(html) : html[j].cls = "jblock" } }

C22_StartsCollapsed(doc, html) ==
    /\ BlocksIn(html) = Containers(doc)
    /\ CollapsedIn(html) =
          IF SerializedLines(doc) > collapse_lines
          THEN Containers(doc) \ {<<>>}
          ELSE {}

C22_InitialCollapseFollowsLineCount ==
    \A i \in ParsedCalls :
        LET doc == loads(to_html_calls[i].text).value
        IN  /\ C22_StartsCollapsed(doc, to_html_calls[i].html)
            /\ C22_StartsCollapsed(doc, JsonPreview_to_html(doc, collapse_lines))

\* to_html returned the HTML of a document of twelve lines with the
\* threshold at eleven: its four inner containers are collapsed, the root
\* is not
C22_Witness ==
    \E i \in ParsedCalls :
        /\ SerializedLines(loads(to_html_calls[i].text).value) = collapse_lines + 1
        /\ Cardinality(CollapsedIn(to_html_calls[i].html)) = 4
        /\ <<>> \notin CollapsedIn(to_html_calls[i].html)
        /\ \E p \in CollapsedIn(to_html_calls[i].html) : Len(p) = 2

\* the line count equals the threshold: nothing is collapsed
C22_AtThresholdWitness ==
    \E i \in ParsedCalls :
        /\ SerializedLines(loads(to_html_calls[i].text).value) = collapse_lines
        /\ CollapsedIn(to_html_calls[i].html) = {}

(***************************************************************************)
(* C23: for a non-empty expression that evaluates successfully the filter  *)
(* callback receives the expression exactly as it was submitted and the    *)
(* number of matches the evaluator returned, which is the length of the    *)
(* highlight list (two matches with one path string count twice); for an   *)
(* expression that is None, empty or only whitespace it receives "" and 0. *)
(***************************************************************************)
C23_CallbackGetsExpressionAndMatchCount ==
    /\ \A i \in RenderCalls :
          LET r == idle[i].req
          IN  (Succeeded(r) /\ requests[r].stage = "done") =>
                 /\ idle[i].count = Len(idle[i].highlights)
                 /\ idle[i].count = Len(MatchesOf(r))
    /\ \A r \in Submitted :
          obs[r].callbacks > 0 =>
             /\ Succeeded(r) =>
                   /\ obs[r].cb_expr = requests[r].expression
                   /\ obs[r].cb_count = Len(MatchesOf(r))
             /\ IsBlank(requests[r].expression) =>
                   /\ obs[r].cb_expr = ""
                   /\ obs[r].cb_count = 0

\* the callback got ("$.*.*", 2) for two matches that share one path string
C23_Witness ==
    \E r \in Submitted :
        /\ requests[r].expression = "$.*.*"
        /\ obs[r].callbacks = 1
        /\ obs[r].cb_expr = "$.*.*"
        /\ obs[r].cb_count = 2
        /\ handler.req = r
        /\ Len(handler.highlights) = 2
        /\ handler.highlights[1] = handler.highlights[2]

\* the callback got ("", 0) for the expressions None and " "
C23_BlankWitness ==
    /\ Len(requests) = 2
    /\ requests[1].expression = NoneExpr
    /\ requests[2].expression = " "
    /\ \A r \in Submitted :
          obs[r].callbacks = 1 /\ obs[r].cb_expr = "" /\ obs[r].cb_count = 0

(***************************************************************************)
(* C24: no filter request changes the cached document, the tab width or    *)
(* the collapse threshold (every step but a to_html call leaves the three  *)
(* as they are, and no step changes the threshold), and the document       *)
(* handed to _render, and by _render to the webview, is always the whole   *)
(* cached document, whatever the expression: empty, matching (also at the  *)
(* root), without a match or failing.                                      *)
(***************************************************************************)
C24_WholeDocument(data) ==
    /\ data = json_data'
    /\ Positions(data) = Positions(json_data')

C24_FilterKeepsDocument ==
    [][/\ loads_done' = loads_done =>
             json_data' = json_data /\ tab_width' = tab_width
       /\ collapse_lines' = collapse_lines
       /\ \A i \in 1..Len(idle') :
             idle'[i].fn = "_render" =>
                /\ C24_WholeDocument(idle'[i].data)
                /\ idle'[i].data = requests'[idle'[i].req].subdoc
       /\ \A k \in 1..Len(pending') : C24_WholeDocument(pending'[k].data)]_vars

\* after a failed request on {"a": {"b": 1}, "c": 2}, a request matching the
\* root is about to be rendered with the whole document
C24_Witness ==
    /\ json_data = DocBasic
    /\ Len(requests) = 2
    /\ Failed(1)
    /\ obs[1].rendered = "loaded"
    /\ requests[2].expression = "$"
    /\ \E i \in RenderCalls :
          /\ idle[i].req = 2
          /\ idle[i].highlights = << <<>> >>
          /\ idle[i].data = DocBasic

====
